---------------------------- MODULE Spec2Model ----------------------------
(***************************************************************************)
(* Domain decomposition of gaepsi2 (src/src/domain.py): GridND.decompose,  *)
(* Layout.__init__, Layout.exchange and Rotator, over an MPI communicator. *)
(*                                                                         *)
(* Lengths are integer ticks: grid edges, positions and smoothing radii    *)
(* are integers, so that numpy.digitize's comparisons are exact.  Ranks    *)
(* and particle indices are 0-based as in the source; TLA+ sequences are   *)
(* 1-based, so item k of a numpy array a is a[k + 1].                    *)
(***************************************************************************)
EXTENDS Integers, Sequences, FiniteSets, TLC

VARIABLES
    grid,        \* GridND.grid: per-dimension edge sequences
    periodic,    \* GridND.periodic
    smoothing,   \* the smoothing argument of decompose
    pos,         \* pos[p]: the positions process p passes to decompose
    pc,          \* pc[p]: where process p is in its program
    counts,      \* counts[p]: decompose's local counts array
    indices,     \* indices[p]: decompose's local indices array
    layout,      \* layout[p]: the fields of the Layout object of process p
    calls,       \* calls[p]: the collective calls process p has issued
    data,        \* data[p]: the payload of the exchange call in progress
    buffer,      \* buffer[p]: exchange's send buffer (data.take(indices))
    recvbuffer,  \* recvbuffer[p]: exchange's receive buffer
    nexchange,   \* nexchange[p]: exchange calls process p has returned from
    iter,        \* iter[p]: the rounds the Barrier loop of Rotator.__enter__
                 \* or __exit__ has started on process p
    log,         \* what the bodies of the Rotator regions did, in order
    bulk,        \* how many particles an entry of pos stands for, in units
                 \* of 2^20 particles (0: one particle, the batch is as listed)
    rows,        \* rows[p]: the rows of the payload of the call in progress
    results,     \* results[p]: the arrays exchange has returned to process p
    gridnd,      \* gridnd[p]: myrank, mystart and myend of the GridND object
                 \* process p has constructed
    ndigitize,   \* ndigitize[p]: the calls of _digitize decompose has made
    gathered     \* gathered[p]: the dtype strings process p has passed to
                 \* allgather, one per exchange call it has made

vars == <<grid, periodic, smoothing, pos, pc, counts, indices, layout,
          calls, data, buffer, recvbuffer, nexchange, iter, log, bulk, rows,
          results, gridnd, ndigitize, gathered>>

-----------------------------------------------------------------------------
(* Bounds of the model *)

\* Longest particle batch of the process that decomposes alone
MaxNpoint == 2
\* Largest smoothing radius, in ticks
MaxSmoothing == 2
\* Most particles, over all processes, of the batches that are exchanged
MaxTotal == 2
\* Most exchange calls a process makes through its layout
MaxExchange == 1
\* Largest group of processes that runs a Rotator region
MaxRotSize == 4
\* Most arrays a process passes through one layout, one after the other
MaxReuse == 2
\* Most exchange calls of a process that fail before one returns
MaxRetry == 1

-----------------------------------------------------------------------------
(* Arithmetic helpers *)

RECURSIVE SumSeq(_)
SumSeq(s) == IF s = <<>> THEN 0 ELSE s[1] + SumSeq(Tail(s))

RECURSIVE ProdSeq(_)
ProdSeq(s) == IF s = <<>> THEN 1 ELSE s[1] * ProdSeq(Tail(s))

RECURSIVE Repeat(_, _)
Repeat(x, n) == IF n <= 0 THEN <<>> ELSE <<x>> \o Repeat(x, n - 1)

\* The sequence f(0), f(1), ..., f(n - 1) of a function over 0 .. n - 1
AsSeq(f, n) == [k \in 1..n |-> f[k - 1]]

\* All sequences over S of length at most n
SeqsUpTo(S, n) == UNION {[1..k -> S] : k \in 0..n}

-----------------------------------------------------------------------------
(* GridND.__init__ *)

\* self.dims: the mesh of ranks, len(g) - 1 per dimension
Dims(g) == [j \in 1..Len(g) |-> Len(g[j]) - 1]

\* comm.size, which __init__ asserts to be the product of the dims
CommSize(g) == ProdSeq(Dims(g))

Ranks(g) == 0..(CommSize(g) - 1)

\* The stride of dimension j in C order: the last dimension varies fastest
Stride(dims, j) == ProdSeq(SubSeq(dims, j + 1, Len(dims)))

\* The coordinates in Fortran order: the first dimension varies fastest
unravel_index_F(rank, dims) ==
    [j \in 1..Len(dims) |-> (rank \div ProdSeq(SubSeq(dims, 1, j - 1))) % dims[j]]

\* numpy.unravel_index(rank, dims): 0-based coordinates of a flat rank
unravel_index(rank, dims) ==
    [j \in 1..Len(dims) |-> (rank \div Stride(dims, j)) % dims[j]]

\* self.mystart and self.myend of the process of flat rank `rank`
mystart(g, rank) ==
    [j \in 1..Len(g) |-> g[j][unravel_index(rank, Dims(g))[j] + 1]]

myend(g, rank) ==
    [j \in 1..Len(g) |-> g[j][unravel_index(rank, Dims(g))[j] + 2]]

\* No GridND object yet
NoGridND == [myrank |-> <<>>, mystart |-> <<>>, myend |-> <<>>]

\* Lines 123-132: the constructor on process p of a group of n processes
GridNDInit(p) ==
    /\ pc[p] = "new"
    /\ IF Cardinality(DOMAIN pc) = CommSize(grid)
         THEN /\ gridnd' = [gridnd EXCEPT ![p] =
                     [myrank |-> unravel_index(p, Dims(grid)),
                      mystart |-> mystart(grid, p), myend |-> myend(grid, p)]]
              /\ pc' = [pc EXCEPT ![p] = "constructed"]
         ELSE /\ pc' = [pc EXCEPT ![p] = "AssertionError"]
              /\ UNCHANGED gridnd
    /\ UNCHANGED <<gathered, ndigitize, rows, results, bulk, grid, periodic, smoothing, pos, counts,
                   indices, layout, calls, data, buffer, recvbuffer, nexchange,
                   iter, log>>

-----------------------------------------------------------------------------
(* GridND.decompose: bin indices *)

\* numpy.digitize(x, bins) for increasing bins: the i with
\* bins[i-1] <= x < bins[i], 0 below the first edge, len(bins) from the last
digitize(x, bins) == Cardinality({i \in 1..Len(bins) : bins[i] <= x})

\* numpy.remainder(x, m) for m > 0: the result has the sign of m
remainder(x, m) == x % m

\* A clip that leaves its argument as it is
clipNone(x, lo, hi) == x

\* numpy.clip
clip(x, lo, hi) == IF x < lo THEN lo ELSE IF x > hi THEN hi ELSE x

\* tmp of decompose: the coordinate, wrapped into the box when periodic
Tmp(g, per, j, x) == IF per THEN remainder(x, g[j][Len(g[j])]) ELSE x

\* sil[j, i]: the lower bin index of coordinate x in dimension j
Sil(g, per, sm, j, x) ==
    LET v == digitize(Tmp(g, per, j, x) - sm, g[j]) - 1
    IN  IF per THEN v ELSE clip(v, 0, Dims(g)[j])

\* sir[j, i]: the upper (exclusive) bin index of coordinate x in dimension j
Sir(g, per, sm, j, x) ==
    LET v == digitize(Tmp(g, per, j, x) + sm, g[j])
    IN  IF per THEN v ELSE clip(v, 0, Dims(g)[j])

-----------------------------------------------------------------------------
(* _domain.gridnd_fill (compiled extension; modelled from the description  *)
(* of the assignment kernel: the Cartesian product over the dimensions of  *)
(* every bin in [sil, sir), wrapped modulo the mesh extent when periodic,  *)
(* counted in mode 0 and filled in rank-ascending blocks in mode 1)        *)

\* How many bins of lo .. hi - 1 land on mesh coordinate c in a dimension of d bins
BinHits(lo, hi, d, per, c) ==
    Cardinality({b \in lo..(hi - 1) : (IF per THEN b % d ELSE b) = c})

\* How many times the particle at position x is sent to flat rank t
Hits(g, per, sm, x, t) ==
    LET dims == Dims(g)
        c    == unravel_index(t, dims)
    IN  ProdSeq([j \in 1..Len(g) |->
            BinHits(Sil(g, per, sm, j, x[j]), Sir(g, per, sm, j, x[j]),
                    dims[j], per, c[j])])

\* mode 0: counts[t], the number of items for rank t
FillCounts(g, per, sm, ps) ==
    [t \in Ranks(g) |-> SumSeq([i \in 1..Len(ps) |-> Hits(g, per, sm, ps[i], t)])]

RECURSIVE Block(_, _, _, _, _, _)
\* The block of rank t: particle indices i - 1 for i = from .. Len(ps), each
\* once per hit, in particle order
Block(g, per, sm, ps, t, from) ==
    IF from > Len(ps) THEN <<>>
    ELSE Repeat(from - 1, Hits(g, per, sm, ps[from], t))
         \o Block(g, per, sm, ps, t, from + 1)

RECURSIVE Blocks(_, _, _, _, _)
\* mode 1: the blocks of ranks t, t + 1, ..., concatenated
FillIndices(g, per, sm, ps) == Blocks(g, per, sm, ps, 0)

Blocks(g, per, sm, ps, t) ==
    IF t >= CommSize(g) THEN <<>>
    ELSE Block(g, per, sm, ps, t, 1) \o Blocks(g, per, sm, ps, t + 1)

-----------------------------------------------------------------------------
(* The communicator *)

\* The processes of the group, by rank
Procs == DOMAIN pc

\* comm.size
size == Cardinality(Procs)

\* Process p issues the collective call c and blocks in it
Issue(p, c) == [calls EXCEPT ![p] = Append(@, c)]

\* The collective call process p is blocked in has been entered by every
\* process of the group (as its call of the same number), so it can return
Completed(p) ==
    LET n == Len(calls[p])
    IN  /\ n > 0
        /\ \A q \in Procs : Len(calls[q]) >= n /\ calls[q][n] = calls[p][n]

-----------------------------------------------------------------------------
(* GridND.decompose, the local part: counts and indices *)

decompose_counts(g, per, sm, ps) ==
    IF Len(ps) # 0 THEN FillCounts(g, per, sm, ps) ELSE [t \in Ranks(g) |-> 0]

decompose_indices(g, per, sm, ps) ==
    IF Len(ps) # 0 THEN FillIndices(g, per, sm, ps) ELSE <<>>

\* A loop over the dimensions that runs for an empty batch as well
DigitizeCallsAlways(g, ps) == 2 * Len(g)

\* Lines 154-164: _digitize is called twice per dimension, for sil and for
\* sir, and only when the batch is not empty
DigitizeCalls(g, ps) == IF Len(ps) # 0 THEN 2 * Len(g) ELSE 0

DecomposeLocal(p) ==
    /\ pc[p] = "start"
    /\ ndigitize' = [ndigitize EXCEPT ![p] = DigitizeCalls(grid, pos[p])]
    /\ counts' = [counts EXCEPT ![p] = decompose_counts(grid, periodic, smoothing, pos[p])]
    /\ indices' = [indices EXCEPT ![p] = decompose_indices(grid, periodic, smoothing, pos[p])]
    /\ pc' = [pc EXCEPT ![p] = "decomposed"]
    /\ UNCHANGED <<gathered, gridnd, rows, results, bulk, grid, periodic, smoothing, pos, layout, calls, data, buffer,
                   recvbuffer, nexchange, iter, log>>

-----------------------------------------------------------------------------
(* Layout.__init__, called by decompose with recvcounts=None *)

Zeros == [t \in Procs |-> 0]

\* No Layout object yet
NoLayout ==
    [sendcounts |-> <<>>, recvcounts |-> <<>>, sendoffsets |-> <<>>,
     recvoffsets |-> <<>>, oldlength |-> 0, newlength |-> 0, indices |-> <<>>]

\* a.cumsum()[:-1] written to offsets[1:] of a zeroed array: exclusive prefix sums
Offsets(a) == [t \in Procs |-> SumSeq([k \in 1..t |-> a[k - 1]])]

\* a.sum()
Total(a) == SumSeq(AsSeq(a, size))

\* Lines 32-44: the arrays are allocated and the first Barrier is entered
LayoutInit(p) ==
    /\ pc[p] = "decomposed"
    /\ layout' = [layout EXCEPT ![p] =
           [NoLayout EXCEPT !.sendcounts = counts[p], !.recvcounts = Zeros,
                            !.sendoffsets = Zeros, !.recvoffsets = Zeros]]
    /\ calls' = Issue(p, "Barrier")
    /\ pc' = [pc EXCEPT ![p] = "init_Barrier1"]
    /\ UNCHANGED <<gathered, ndigitize, gridnd, rows, results, bulk, grid, periodic, smoothing, pos, counts, indices, data, buffer,
                   recvbuffer, nexchange, iter, log>>

\* Line 45: the Barrier has returned, Alltoall is entered
LayoutAlltoall(p) ==
    /\ pc[p] = "init_Barrier1"
    /\ Completed(p)
    /\ calls' = Issue(p, "Alltoall")
    /\ pc' = [pc EXCEPT ![p] = "init_Alltoall"]
    /\ UNCHANGED <<gathered, ndigitize, gridnd, rows, results, bulk, grid, periodic, smoothing, pos, counts, indices, layout, data,
                   buffer, recvbuffer, nexchange, iter, log>>

\* A receive array that is the send array of the process itself
AlltoallOwn(p) == [q \in Procs |-> layout[p].sendcounts[q]]

\* What Alltoall leaves in the receive array of p: item q is what q sent to p
Alltoall(p) == [q \in Procs |-> layout[q].sendcounts[p]]

\* Line 46: Alltoall has returned with recvcounts, the second Barrier is entered
LayoutBarrier2(p) ==
    /\ pc[p] = "init_Alltoall"
    /\ Completed(p)
    /\ layout' = [layout EXCEPT ![p].recvcounts = Alltoall(p)]
    /\ calls' = Issue(p, "Barrier")
    /\ pc' = [pc EXCEPT ![p] = "init_Barrier2"]
    /\ UNCHANGED <<gathered, ndigitize, gridnd, rows, results, bulk, grid, periodic, smoothing, pos, counts, indices, data, buffer,
                   recvbuffer, nexchange, iter, log>>

\* Lines 49-55, and decompose returns the layout
LayoutDone(p) ==
    /\ pc[p] = "init_Barrier2"
    /\ Completed(p)
    /\ layout' = [layout EXCEPT ![p] =
           [@ EXCEPT !.sendoffsets = Offsets(layout[p].sendcounts),
                     !.recvoffsets = Offsets(layout[p].recvcounts),
                     !.oldlength = Total(layout[p].sendcounts),
                     !.newlength = Total(layout[p].recvcounts),
                     !.indices = indices[p]]]
    /\ pc' = [pc EXCEPT ![p] = "ready"]
    /\ UNCHANGED <<gathered, ndigitize, gridnd, rows, results, bulk, grid, periodic, smoothing, pos, counts, indices, calls, data,
                   buffer, recvbuffer, nexchange, iter, log>>

-----------------------------------------------------------------------------
(* Layout.exchange *)

\* data.dtype.str of the payloads, and data.dtype.itemsize
DTypes == {"<f4", "<f8"}

dtype_itemsize(t) == IF t = "<f4" THEN 4 ELSE 8

\* data.shape[1:] of the payloads: scalars, or pairs
Shapes == {<<>>, <<2>>}

\* No exchange call in progress
NoData == [dtype |-> "", shape |-> <<>>, len |-> 0]

\* A payload: its element type, its trailing shape and its leading length
Payload(t, sh, n) == [dtype |-> t, shape |-> sh, len |-> n]

\* The payloads process p may pass: float32 scalars, one per position it
\* decomposed (as process_chunk passes sml), or an array that differs from
\* that in its element type, in its trailing shape or by one in its length
Payloads(p) ==
    LET n == Len(pos[p])
    IN  {Payload("<f4", <<>>, n), Payload("<f8", <<>>, n),
         Payload("<f4", <<2>>, n), Payload("<f4", <<>>, n + 1)}
        \cup {Payload("<f4", <<>>, m) : m \in {n - 1} \cap Nat}

\* Item k of an array process p made, as a value: rows are told apart by the
\* process that made them and their index
Item(p, k) == <<p, k>>

\* A row of a receive buffer that the transfer filled with bytes of items of
\* another size, or left in part as numpy.empty allocated it
Garbled == <<"garbled">>

\* Line 63: exchange is called with one of the payloads and enters allgather
EnterExchange(p) ==
    /\ \E d \in Payloads(p) :
           /\ data' = [data EXCEPT ![p] = d]
           /\ rows' = [rows EXCEPT ![p] = [k \in 1..d.len |-> Item(p, k - 1)]]
           /\ gathered' = [gathered EXCEPT ![p] = Append(@, d.dtype)]
    /\ calls' = Issue(p, "allgather")
    /\ pc' = [pc EXCEPT ![p] = "ex_allgather"]
    /\ UNCHANGED <<ndigitize, gridnd, results, bulk, grid, periodic, smoothing,
                   pos, counts, indices, layout, buffer, recvbuffer, nexchange,
                   iter, log>>

\* The process makes at most n calls through its layout
ExchangeCallWithin(p, n) ==
    /\ pc[p] = "ready"
    /\ nexchange[p] < n
    /\ EnterExchange(p)

ExchangeCall(p) == ExchangeCallWithin(p, MaxExchange)

\* The calls of a process that passes one array after the other through the
\* same layout, as process_chunk does with pos, sml and data
ExchangeAgain(p) == ExchangeCallWithin(p, MaxReuse)

\* The caller has caught the TypeError and calls exchange again through the
\* same layout
ExchangeRetry(p) ==
    /\ pc[p] = "TypeError"
    /\ Len(gathered[p]) - nexchange[p] <= MaxRetry
    /\ nexchange[p] < MaxExchange
    /\ EnterExchange(p)

\* A comparison of the type of the process with that of rank 0 only
allgather_root(p) ==
    {gathered[q][Len(gathered[p])] : q \in {p, 0}}

\* Line 63: what allgather returns to process p in its call in progress, as
\* a set (line 64 takes set(dtypes)): what every process passed to its
\* allgather call of the same number
allgather_dtypes(p) ==
    {gathered[q][Len(gathered[p])] : q \in Procs}

\* Line 64: the only check of exchange
TypesDiffer(p) == Cardinality(allgather_dtypes(p)) # 1

\* Line 75: data.take(indices, axis=0) raises IndexError on an index out of bounds
TakeFails(p) == \E k \in 1..Len(layout[p].indices) : layout[p].indices[k] >= data[p].len

take(p) == [k \in 1..Len(layout[p].indices) |-> rows[p][layout[p].indices[k] + 1]]

\* Lines 82-83: the bytes of one item
itemsize(p) == ProdSeq(data[p].shape) * dtype_itemsize(data[p].dtype)

\* Lines 64-88: allgather has returned; the types are checked, the send buffer
\* is taken and the Barrier before the transfer is entered
ExchangeCheck(p) ==
    /\ pc[p] = "ex_allgather"
    /\ Completed(p)
    /\ IF TypesDiffer(p)
         THEN /\ pc' = [pc EXCEPT ![p] = "TypeError"]
              /\ UNCHANGED <<buffer, recvbuffer, calls>>
         ELSE IF TakeFails(p)
         THEN /\ pc' = [pc EXCEPT ![p] = "IndexError"]
              /\ UNCHANGED <<buffer, recvbuffer, calls>>
         ELSE /\ buffer' = [buffer EXCEPT ![p] = take(p)]
              /\ recvbuffer' = [recvbuffer EXCEPT ![p] =
                     [k \in 1..layout[p].newlength |-> Garbled]]
              /\ calls' = Issue(p, "Barrier")
              /\ pc' = [pc EXCEPT ![p] = "ex_Barrier1"]
    /\ UNCHANGED <<gathered, ndigitize, gridnd, rows, results, bulk, grid, periodic, smoothing, pos, counts, indices, layout, data,
                   nexchange, iter, log>>

\* Line 91: the Barrier has returned, Alltoallv is entered
ExchangeAlltoallv(p) ==
    /\ pc[p] = "ex_Barrier1"
    /\ Completed(p)
    /\ calls' = Issue(p, "Alltoallv")
    /\ pc' = [pc EXCEPT ![p] = "ex_Alltoallv"]
    /\ UNCHANGED <<gathered, ndigitize, gridnd, rows, results, bulk, grid, periodic, smoothing, pos, counts, indices, layout, data,
                   buffer, recvbuffer, nexchange, iter, log>>

\* The message of s for p is longer than the room p gave it: MPI_ERR_TRUNCATE
Truncated(p) ==
    \E s \in Procs : layout[s].sendcounts[p] * itemsize(s)
                       > layout[p].recvcounts[s] * itemsize(p)

\* Row k (from 1) of the receive buffer of p after Alltoallv: the row of the
\* block of the source s whose room holds it, when s sent items of p's size
Alltoallv(p) ==
    [k \in 1..layout[p].newlength |->
        LET s == CHOOSE s \in Procs :
                     /\ layout[p].recvoffsets[s] < k
                     /\ k <= layout[p].recvoffsets[s] + layout[p].recvcounts[s]
            j == k - layout[p].recvoffsets[s]
        IN  IF itemsize(s) = itemsize(p) /\ j <= layout[s].sendcounts[p]
            THEN buffer[s][layout[s].sendoffsets[p] + j]
            ELSE Garbled]

\* Lines 91-94: Alltoallv has returned, the last Barrier is entered
ExchangeBarrier2(p) ==
    /\ pc[p] = "ex_Alltoallv"
    /\ Completed(p)
    /\ IF Truncated(p)
         THEN /\ pc' = [pc EXCEPT ![p] = "MPIError"]
              /\ UNCHANGED <<recvbuffer, calls>>
         ELSE /\ recvbuffer' = [recvbuffer EXCEPT ![p] = Alltoallv(p)]
              /\ calls' = Issue(p, "Barrier")
              /\ pc' = [pc EXCEPT ![p] = "ex_Barrier2"]
    /\ UNCHANGED <<gathered, ndigitize, gridnd, rows, results, bulk, grid, periodic, smoothing, pos, counts, indices, layout, data,
                   buffer, nexchange, iter, log>>

\* Line 95: the Barrier has returned, exchange returns recvbuffer
ExchangeReturn(p) ==
    /\ pc[p] = "ex_Barrier2"
    /\ Completed(p)
    /\ nexchange' = [nexchange EXCEPT ![p] = @ + 1]
    /\ results' = [results EXCEPT ![p] = Append(@,
           [dtype |-> data[p].dtype, shape |-> data[p].shape,
            rows |-> recvbuffer[p]])]
    /\ data' = [data EXCEPT ![p] = NoData]
    /\ rows' = [rows EXCEPT ![p] = <<>>]
    /\ buffer' = [buffer EXCEPT ![p] = <<>>]
    /\ pc' = [pc EXCEPT ![p] = "ready"]
    /\ UNCHANGED <<gathered, ndigitize, gridnd, bulk, grid, periodic, smoothing, pos, counts, indices, layout, calls,
                   recvbuffer, iter, log>>

-----------------------------------------------------------------------------
(* Layout.__init__ with recvcounts supplied, and the way back *)

\* numpy.arange(n): the identity index sequence
arange(n) == [k \in 1..n |-> k - 1]

\* A constructor that leaves sendoffsets as numpy.zeros_like made it
LayoutWithZeroOffsets(sc, idx, rc) ==
    [sendcounts |-> sc, recvcounts |-> rc,
     sendoffsets |-> Zeros, recvoffsets |-> Offsets(rc),
     oldlength |-> Total(sc), newlength |-> Total(rc), indices |-> idx]

\* Lines 32-39 and 47-55: the fields of Layout(comm, sc, idx, recvcounts=rc)
LayoutWith(sc, idx, rc) ==
    [sendcounts |-> sc, recvcounts |-> rc,
     sendoffsets |-> Offsets(sc), recvoffsets |-> Offsets(rc),
     oldlength |-> Total(sc), newlength |-> Total(rc), indices |-> idx]

\* Largest count in a recvcounts array a caller supplies
MaxSupplied == 1

\* The recvcounts arrays a caller may supply: one count per process
SuppliedCounts == [Procs -> 0..MaxSupplied]

\* Lines 32-39 and 47-55: the caller constructs Layout(comm, counts, indices,
\* recvcounts=rc) itself.  recvcounts is not None, so line 48 takes it as it is
\* and the Barrier, Alltoall, Barrier of lines 44-46 are skipped.
LayoutSupplied(p) ==
    /\ pc[p] = "decomposed"
    /\ \E rc \in SuppliedCounts :
           layout' = [layout EXCEPT ![p] = LayoutWith(counts[p], indices[p], rc)]
    /\ pc' = [pc EXCEPT ![p] = "ready"]
    /\ UNCHANGED <<gathered, ndigitize, gridnd, rows, results, bulk, grid, periodic, smoothing, pos, counts,
                   indices, calls, data, buffer, recvbuffer, nexchange, iter, log>>

\* The process has made its exchange calls and builds the layout of the way
\* back from the one it holds: send and receive counts swapped, identity
\* indices.  No collective call is made (line 48).
LayoutSwap(p) ==
    /\ pc[p] = "ready"
    /\ nexchange[p] = MaxExchange
    /\ layout' = [layout EXCEPT ![p] =
           LayoutWith(layout[p].recvcounts, arange(layout[p].newlength),
                      layout[p].sendcounts)]
    /\ pc' = [pc EXCEPT ![p] = "swapped"]
    /\ UNCHANGED <<gathered, ndigitize, gridnd, rows, results, bulk, grid, periodic, smoothing, pos, counts,
                   indices, calls, data, buffer, recvbuffer, nexchange, iter, log>>

\* The last array exchange returned to process p
LastResult(p) == results[p][Len(results[p])]

\* Line 63: exchange is called through the swapped layout with the array the
\* last call returned
ExchangeResult(p) ==
    /\ pc[p] = "swapped"
    /\ data' = [data EXCEPT ![p] =
           Payload(LastResult(p).dtype, LastResult(p).shape, Len(LastResult(p).rows))]
    /\ rows' = [rows EXCEPT ![p] = LastResult(p).rows]
    /\ gathered' = [gathered EXCEPT ![p] = Append(@, LastResult(p).dtype)]
    /\ calls' = Issue(p, "allgather")
    /\ pc' = [pc EXCEPT ![p] = "ex_allgather"]
    /\ UNCHANGED <<ndigitize, gridnd, results, bulk, grid, periodic, smoothing, pos, counts, indices,
                   layout, buffer, recvbuffer, nexchange, iter, log>>

-----------------------------------------------------------------------------
(* Rotator: `with Rotator(comm): body` *)

\* A loop that skips its Barrier rounds
EnterRangeEmpty(rank) == {}

\* Line 15: range(self.comm.rank), the rounds a process waits before its body
EnterRange(rank) == 0..(rank - 1)

\* A loop over the rounds of __enter__ instead of the remaining ones
ExitRangeAsEnter(rank, n) == 0..(rank - 1)

\* A loop that starts one round late
ExitRangeShort(rank, n) == (rank + 1)..(n - 1)

\* Line 18: range(self.comm.rank, self.comm.size), the rounds after the body
ExitRange(rank, n) == rank..(n - 1)

\* Line 14: __enter__ enters its first Barrier
RotEnter(p) ==
    /\ pc[p] = "rot_start"
    /\ calls' = Issue(p, "Barrier")
    /\ iter' = [iter EXCEPT ![p] = 0]
    /\ pc' = [pc EXCEPT ![p] = "enter_Barrier"]
    /\ UNCHANGED <<gathered, ndigitize, gridnd, rows, results, bulk, grid, periodic, smoothing, pos, counts, indices, layout,
                   data, buffer, recvbuffer, nexchange, log>>

\* Lines 15-16: a Barrier of __enter__ has returned; the loop enters the next
\* one, or __enter__ returns and the body starts
RotEnterNext(p) ==
    /\ pc[p] = "enter_Barrier"
    /\ Completed(p)
    /\ IF iter[p] < Cardinality(EnterRange(p))
         THEN /\ calls' = Issue(p, "Barrier")
              /\ iter' = [iter EXCEPT ![p] = @ + 1]
              /\ UNCHANGED <<pc, log>>
         ELSE /\ pc' = [pc EXCEPT ![p] = "body"]
              /\ log' = Append(log, <<p, "begin">>)
              /\ UNCHANGED <<calls, iter>>
    /\ UNCHANGED <<gathered, ndigitize, gridnd, rows, results, bulk, grid, periodic, smoothing, pos, counts, indices, layout,
                   data, buffer, recvbuffer, nexchange>>

\* The ways a body can end: it runs to its end, or it raises
BodyEnds == {"end", "raise"}

\* __exit__ called only for a body that ran to its end
ExitCalledOnEnd(how) == how = "end"

\* Line 17: the with statement calls __exit__(type, value, tb) however the
\* body ended, with the exception as arguments when it raised
ExitCalled(how) == how \in BodyEnds

\* Lines 17-20: the body ends in the way `how` and __exit__ enters its first
\* Barrier: the first of its loop, or the last one (line 20) when the loop is
\* empty
BodyExit(p, how) ==
    /\ pc[p] = "body"
    /\ log' = Append(log, <<p, how>>)
    /\ IF ExitCalled(how)
         THEN /\ calls' = Issue(p, "Barrier")
              /\ IF 0 < Cardinality(ExitRange(p, size))
                   THEN /\ iter' = [iter EXCEPT ![p] = 1]
                        /\ pc' = [pc EXCEPT ![p] = "exit_Barrier"]
                   ELSE /\ iter' = [iter EXCEPT ![p] = 0]
                        /\ pc' = [pc EXCEPT ![p] = "exit_last"]
         ELSE /\ pc' = [pc EXCEPT ![p] = "raised"]
              /\ UNCHANGED <<calls, iter>>
    /\ UNCHANGED <<gathered, ndigitize, gridnd, rows, results, bulk, grid, periodic, smoothing, pos, counts, indices, layout,
                   data, buffer, recvbuffer, nexchange>>

\* The body runs to its end
RotBodyEnd(p) == BodyExit(p, "end")

\* The body raises an exception
RotBodyRaise(p) == BodyExit(p, "raise")

\* The body of process p has raised
Raised(p) == \E k \in 1..Len(log) : log[k] = <<p, "raise">>

\* Lines 18-20: a Barrier of the loop of __exit__ has returned; the loop enters
\* the next one, or the last Barrier (line 20) is entered
RotExitNext(p) ==
    /\ pc[p] = "exit_Barrier"
    /\ Completed(p)
    /\ calls' = Issue(p, "Barrier")
    /\ IF iter[p] < Cardinality(ExitRange(p, size))
         THEN /\ iter' = [iter EXCEPT ![p] = @ + 1]
              /\ UNCHANGED pc
         ELSE /\ pc' = [pc EXCEPT ![p] = "exit_last"]
              /\ UNCHANGED iter
    /\ UNCHANGED <<gathered, ndigitize, gridnd, rows, results, bulk, grid, periodic, smoothing, pos, counts, indices, layout,
                   data, buffer, recvbuffer, nexchange, log>>

\* Line 20: the last Barrier has returned and __exit__ returns None: the
\* process leaves the region, and the exception of its body, if any, propagates
RotLeave(p) ==
    /\ pc[p] = "exit_last"
    /\ Completed(p)
    /\ pc' = [pc EXCEPT ![p] = IF Raised(p) THEN "raised" ELSE "left"]
    /\ UNCHANGED <<gathered, ndigitize, gridnd, rows, results, bulk, grid, periodic, smoothing, pos, counts, indices, layout,
                   calls, data, buffer, recvbuffer, nexchange, iter, log>>

-----------------------------------------------------------------------------
(* Grids and inputs *)

\* One dimension, two ranks
Grid2 == << <<0, 2, 4>> >>
\* One dimension, three ranks (edges 0, 1, 2, 3 in ticks of a third)
Grid3 == << <<0, 3, 6, 9>> >>
\* One dimension, five ranks of one tick
Grid5 == << <<0, 1, 2, 3, 4, 5>> >>
\* Two dimensions, a mesh of 2 x 2 ranks
Grid2x2 == << <<0, 1, 2>>, <<0, 2, 4>> >>

\* The last edge of dimension j: the box size
BoxSize(g, j) == g[j][Len(g[j])]

\* Positions of a grid: every tick of the box and one tick beyond it each side
Positions(g) ==
    {x \in [1..Len(g) -> (-1)..10] :
        \A j \in 1..Len(g) : x[j] <= BoxSize(g, j) + 1}

\* Positions of the processes that exchange: the middle of every cell of a
\* one-dimensional grid
CellCentres(g) ==
    {<<(g[1][c] + g[1][c + 1]) \div 2>> : c \in 1..Dims(g)[1]}

\* The state every process starts in, but for its program and its batch
Fresh(g, P) ==
    /\ grid = g
    /\ counts = [p \in P |-> <<>>]
    /\ indices = [p \in P |-> <<>>]
    /\ layout = [p \in P |-> NoLayout]
    /\ calls = [p \in P |-> <<>>]
    /\ data = [p \in P |-> NoData]
    /\ buffer = [p \in P |-> <<>>]
    /\ recvbuffer = [p \in P |-> <<>>]
    /\ nexchange = [p \in P |-> 0]
    /\ iter = [p \in P |-> 0]
    /\ log = <<>>
    /\ rows = [p \in P |-> <<>>]
    /\ results = [p \in P |-> <<>>]
    /\ gridnd = [p \in P |-> NoGridND]
    /\ ndigitize = [p \in P |-> 0]
    /\ gathered = [p \in P |-> <<>>]

-----------------------------------------------------------------------------
(* The processes of a group construct the GridND object of a grid *)

\* Largest group of processes that constructs a grid
MaxGroup == 6

\* Two dimensions, a mesh of 3 x 2 ranks
Grid3x2 == << <<0, 1, 2, 3>>, <<0, 2, 4>> >>

InitGrid ==
    /\ \E g \in {Grid2, Grid3, Grid5, Grid2x2, Grid3x2} :
           \E n \in 1..MaxGroup :
               /\ Fresh(g, 0..(n - 1))
               /\ pos = [p \in 0..(n - 1) |-> <<>>]
               /\ pc = [p \in 0..(n - 1) |-> "new"]
    /\ periodic \in BOOLEAN
    /\ smoothing = 0
    /\ bulk = 0

NextGrid == \E p \in Procs : GridNDInit(p)

SpecGrid == InitGrid /\ [][NextGrid]_vars

-----------------------------------------------------------------------------
(* The processes decompose, build their layouts and exchange *)

Init ==
    /\ \E g \in {Grid2, Grid3} : Fresh(g, Ranks(g))
    /\ periodic \in BOOLEAN
    /\ smoothing \in 0..MaxSmoothing
    /\ pos \in {b \in [Ranks(grid) -> SeqsUpTo(CellCentres(grid), MaxTotal)] :
                   SumSeq(AsSeq([p \in Ranks(grid) |-> Len(b[p])], CommSize(grid)))
                       <= MaxTotal}
    /\ pc = [p \in Ranks(grid) |-> "start"]
    /\ bulk = 0

Next ==
    \/ \E p \in Procs : DecomposeLocal(p)
    \/ \E p \in Procs : LayoutInit(p)
    \/ \E p \in Procs : LayoutAlltoall(p)
    \/ \E p \in Procs : LayoutBarrier2(p)
    \/ \E p \in Procs : LayoutDone(p)
    \/ \E p \in Procs : ExchangeCall(p)
    \/ \E p \in Procs : ExchangeCheck(p)
    \/ \E p \in Procs : ExchangeAlltoallv(p)
    \/ \E p \in Procs : ExchangeBarrier2(p)
    \/ \E p \in Procs : ExchangeReturn(p)

Spec == Init /\ [][Next]_vars

\* The same processes, up to the return of decompose: no exchange call
NextLayout ==
    \/ \E p \in Procs : DecomposeLocal(p)
    \/ \E p \in Procs : LayoutInit(p)
    \/ \E p \in Procs : LayoutAlltoall(p)
    \/ \E p \in Procs : LayoutBarrier2(p)
    \/ \E p \in Procs : LayoutDone(p)

SpecLayout == Init /\ [][NextLayout]_vars

-----------------------------------------------------------------------------
(* The processes exchange forward and then back: radius 0, periodic grid *)

InitRound ==
    /\ \E g \in {Grid2, Grid3} : Fresh(g, Ranks(g))
    /\ periodic = TRUE
    /\ smoothing = 0
    /\ pos \in {b \in [Ranks(grid) -> SeqsUpTo(CellCentres(grid), MaxTotal)] :
                   SumSeq(AsSeq([p \in Ranks(grid) |-> Len(b[p])], CommSize(grid)))
                       <= MaxTotal}
    /\ pc = [p \in Ranks(grid) |-> "start"]
    /\ bulk = 0

NextRound ==
    \/ \E p \in Procs : DecomposeLocal(p)
    \/ \E p \in Procs : LayoutInit(p)
    \/ \E p \in Procs : LayoutAlltoall(p)
    \/ \E p \in Procs : LayoutBarrier2(p)
    \/ \E p \in Procs : LayoutDone(p)
    \/ \E p \in Procs : ExchangeCall(p)
    \/ \E p \in Procs : ExchangeCheck(p)
    \/ \E p \in Procs : ExchangeAlltoallv(p)
    \/ \E p \in Procs : ExchangeBarrier2(p)
    \/ \E p \in Procs : ExchangeReturn(p)
    \/ \E p \in Procs : LayoutSwap(p)
    \/ \E p \in Procs : ExchangeResult(p)

SpecRound == InitRound /\ [][NextRound]_vars

-----------------------------------------------------------------------------
(* The processes pass several arrays through one layout *)

\* Two ranks, as in Init
InitReuse ==
    /\ Fresh(Grid2, Ranks(Grid2))
    /\ periodic \in BOOLEAN
    /\ smoothing \in 0..MaxSmoothing
    /\ pos \in {b \in [Ranks(grid) -> SeqsUpTo(CellCentres(grid), MaxTotal)] :
                   SumSeq(AsSeq([p \in Ranks(grid) |-> Len(b[p])], CommSize(grid)))
                       <= MaxTotal}
    /\ pc = [p \in Ranks(grid) |-> "start"]
    /\ bulk = 0

\* A round of Layout constructions in which each process supplies recvcounts
\* or leaves it None
NextSupply ==
    \/ \E p \in Procs : DecomposeLocal(p)
    \/ \E p \in Procs : LayoutInit(p)
    \/ \E p \in Procs : LayoutSupplied(p)
    \/ \E p \in Procs : LayoutAlltoall(p)
    \/ \E p \in Procs : LayoutBarrier2(p)
    \/ \E p \in Procs : LayoutDone(p)

SpecSupply == InitReuse /\ [][NextSupply]_vars

NextReuse ==
    \/ \E p \in Procs : DecomposeLocal(p)
    \/ \E p \in Procs : LayoutInit(p)
    \/ \E p \in Procs : LayoutAlltoall(p)
    \/ \E p \in Procs : LayoutBarrier2(p)
    \/ \E p \in Procs : LayoutDone(p)
    \/ \E p \in Procs : ExchangeAgain(p)
    \/ \E p \in Procs : ExchangeCheck(p)
    \/ \E p \in Procs : ExchangeAlltoallv(p)
    \/ \E p \in Procs : ExchangeBarrier2(p)
    \/ \E p \in Procs : ExchangeReturn(p)

SpecReuse == InitReuse /\ [][NextReuse]_vars

-----------------------------------------------------------------------------
(* The processes call exchange again after a TypeError *)

\* Two ranks on a periodic grid
InitRetry ==
    /\ Fresh(Grid2, Ranks(Grid2))
    /\ periodic = TRUE
    /\ smoothing \in 0..MaxSmoothing
    /\ pos \in {b \in [Ranks(grid) -> SeqsUpTo(CellCentres(grid), MaxTotal)] :
                   SumSeq(AsSeq([p \in Ranks(grid) |-> Len(b[p])], CommSize(grid)))
                       <= MaxTotal}
    /\ pc = [p \in Ranks(grid) |-> "start"]
    /\ bulk = 0

NextRetry ==
    \/ \E p \in Procs : DecomposeLocal(p)
    \/ \E p \in Procs : LayoutInit(p)
    \/ \E p \in Procs : LayoutAlltoall(p)
    \/ \E p \in Procs : LayoutBarrier2(p)
    \/ \E p \in Procs : LayoutDone(p)
    \/ \E p \in Procs : ExchangeCall(p)
    \/ \E p \in Procs : ExchangeRetry(p)
    \/ \E p \in Procs : ExchangeCheck(p)
    \/ \E p \in Procs : ExchangeAlltoallv(p)
    \/ \E p \in Procs : ExchangeBarrier2(p)
    \/ \E p \in Procs : ExchangeReturn(p)

SpecRetry == InitRetry /\ [][NextRetry]_vars

-----------------------------------------------------------------------------
(* One process computes the counts and indices of a batch *)

InitAssign ==
    /\ \E g \in {Grid2, Grid3, Grid5, Grid2x2} : Fresh(g, Ranks(g))
    /\ periodic \in BOOLEAN
    /\ smoothing \in 0..MaxSmoothing
    /\ \E ps \in SeqsUpTo(Positions(grid), MaxNpoint) :
           pos = [p \in Ranks(grid) |-> IF p = 0 THEN ps ELSE <<>>]
    /\ pc = [p \in Ranks(grid) |-> IF p = 0 THEN "start" ELSE "idle"]
    /\ bulk = 0

NextAssign == \E p \in Procs : DecomposeLocal(p)

SpecAssign == InitAssign /\ [][NextAssign]_vars

-----------------------------------------------------------------------------
(* One process computes the counts and indices of a batch, non-periodic grid *)

InitClamp ==
    /\ \E g \in {Grid2, Grid3, Grid5, Grid2x2} : Fresh(g, Ranks(g))
    /\ periodic = FALSE
    /\ smoothing \in 0..MaxSmoothing
    /\ \E ps \in SeqsUpTo(Positions(grid), MaxNpoint) :
           pos = [p \in Ranks(grid) |-> IF p = 0 THEN ps ELSE <<>>]
    /\ pc = [p \in Ranks(grid) |-> IF p = 0 THEN "start" ELSE "idle"]
    /\ bulk = 0

SpecClamp == InitClamp /\ [][NextAssign]_vars

-----------------------------------------------------------------------------
(* The processes of a group run one Rotator region *)

InitRot ==
    /\ \E n \in 1..MaxRotSize :
           /\ Fresh(<<>>, 0..(n - 1))
           /\ pos = [p \in 0..(n - 1) |-> <<>>]
           /\ pc = [p \in 0..(n - 1) |-> "rot_start"]
    /\ periodic = FALSE
    /\ smoothing = 0
    /\ bulk = 0

NextRot ==
    \/ \E p \in Procs : RotEnter(p)
    \/ \E p \in Procs : RotEnterNext(p)
    \/ \E p \in Procs : RotBodyEnd(p)
    \/ \E p \in Procs : RotExitNext(p)
    \/ \E p \in Procs : RotLeave(p)

SpecRot == InitRot /\ [][NextRot]_vars

\* The processes keep running: a step that can be taken is taken in the end
SpecRotFair == SpecRot /\ WF_vars(NextRot)

\* The region with bodies that may raise
NextRotRaise ==
    \/ \E p \in Procs : RotEnter(p)
    \/ \E p \in Procs : RotEnterNext(p)
    \/ \E p \in Procs : RotBodyEnd(p)
    \/ \E p \in Procs : RotBodyRaise(p)
    \/ \E p \in Procs : RotExitNext(p)
    \/ \E p \in Procs : RotLeave(p)

SpecRotRaise == InitRot /\ [][NextRotRaise]_vars /\ WF_vars(NextRotRaise)

-----------------------------------------------------------------------------
(* Ghost coverage and multiplicity of decompose *)

\* The part of the index sequence idx that the counts cnt give to rank t
BlockOf(cnt, idx, t) ==
    LET off == SumSeq([k \in 1..t |-> cnt[k - 1]])
    IN  SubSeq(idx, off + 1, off + cnt[t])

\* How often particle i occurs in the sequence s
Occurrences(s, i) == Cardinality({k \in 1..Len(s) : s[k] = i})

\* decompose on process p assigned particle i (from 0) to rank t
AssignedTo(p, i, t) == Occurrences(BlockOf(counts[p], indices[p], t), i) > 0

\* The sub-domain [mystart, myend) of rank t meets [x - sm, x + sm] in every
\* dimension, the interval taken modulo the box when periodic.  Edges,
\* positions and radii are integers, so the two meet exactly when they share
\* an integer point.
InReach(g, per, sm, x, t) ==
    \A j \in 1..Len(g) :
        \E y \in (x[j] - sm)..(x[j] + sm) :
            LET z == IF per THEN y % BoxSize(g, j) ELSE y
            IN  mystart(g, t)[j] <= z /\ z < myend(g, t)[j]

\* C1: decompose assigns every particle to exactly the ranks whose sub-domain
\* meets its ghost interval [p - r, p + r] in every dimension (modulo the box
\* when periodic, cut to the box when not), whatever the radius
GhostCoverage ==
    \A p \in Procs :
        pc[p] = "decomposed" =>
            \A i \in 1..Len(pos[p]) : \A t \in Procs :
                AssignedTo(p, i - 1, t)
                    <=> InReach(grid, periodic, smoothing, pos[p][i], t)

-----------------------------------------------------------------------------
(* Counts and offsets of a large batch.  Every quantity is counted in units *)
(* of 2^20 particles: the batch is bulk * 2^20 particles at each position   *)
(* of pos, so that the limits of 2^31 are within reach.                    *)

\* Line 146: 1024 * 1024 * 1024 * 2 particles, in units of 2^20
AssertLimit == 2048

\* Line 151: the values of an int32, 2^32 of them, in units of 2^20
Int32Span == 4096

\* A value stored into an int32 array: it wraps around in two's complement
Int32(x) == ((x + Int32Span \div 2) % Int32Span) - Int32Span \div 2

\* Line 149: Npoint = len(pos)
Npoint(p) == Len(pos[p]) * bulk

\* Line 146: the only capacity check of decompose
AssertHolds(p) == Npoint(p) < AssertLimit

\* The number of indices decompose produces for rank t
ExactCount(p, t) == FillCounts(grid, periodic, smoothing, pos[p])[t] * bulk

\* Lines 145-172 for a large batch: the assertion, then counts (int32)
DecomposeBulk(p) ==
    /\ pc[p] = "bulk_start"
    /\ ndigitize' = [ndigitize EXCEPT ![p] =
           IF AssertHolds(p) THEN DigitizeCalls(grid, pos[p]) ELSE 0]
    /\ IF AssertHolds(p)
         THEN /\ counts' = [counts EXCEPT ![p] =
                     [t \in Procs |-> Int32(ExactCount(p, t))]]
              /\ pc' = [pc EXCEPT ![p] = "bulk_decomposed"]
         ELSE /\ pc' = [pc EXCEPT ![p] = "AssertionError"]
              /\ UNCHANGED counts
    /\ UNCHANGED <<gathered, gridnd, rows, results, bulk, grid, periodic, smoothing, pos, indices, layout, calls,
                   data, buffer, recvbuffer, nexchange, iter, log>>

\* Lines 35-52 for a large batch, the local part: sendcounts, sendoffsets (an
\* int32 array that takes the cumulative sums) and oldlength (an int64 sum)
LayoutBulk(p) ==
    /\ pc[p] = "bulk_decomposed"
    /\ layout' = [layout EXCEPT ![p] =
           [NoLayout EXCEPT
               !.sendcounts = counts[p],
               !.sendoffsets = [t \in Procs |-> Int32(Offsets(counts[p])[t])],
               !.oldlength = Total(counts[p])]]
    /\ pc' = [pc EXCEPT ![p] = "bulk_ready"]
    /\ UNCHANGED <<gathered, ndigitize, gridnd, rows, results, bulk, grid, periodic, smoothing, pos, counts, indices, calls,
                   data, buffer, recvbuffer, nexchange, iter, log>>

\* Batch sizes around the limits, in units of 2^20 particles
BulkSizes == {1, 512, 1023, 1024, 2047, 2048, 2049}

InitCap ==
    /\ \E g \in {Grid2, Grid3} : Fresh(g, Ranks(g))
    /\ periodic \in BOOLEAN
    /\ smoothing \in 0..MaxSmoothing
    /\ \E x \in Positions(grid) :
           pos = [p \in Ranks(grid) |-> IF p = 0 THEN <<x>> ELSE <<>>]
    /\ pc = [p \in Ranks(grid) |-> IF p = 0 THEN "bulk_start" ELSE "idle"]
    /\ bulk \in BulkSizes

NextCap ==
    \/ \E p \in Procs : DecomposeBulk(p)
    \/ \E p \in Procs : LayoutBulk(p)

SpecCap == InitCap /\ [][NextCap]_vars

\* The length of the index sequence decompose produces, ghosts included
ExactLength(p) == SumSeq(AsSeq([t \in Procs |-> ExactCount(p, t)], size))

\* C10: decompose fails whenever the index sequence would be longer than an
\* int32 can address, so that when it returns a layout the length is below
\* 2^31 and no count and no offset has wrapped around
CapacityChecked ==
    \A p \in Procs :
        pc[p] = "bulk_ready" =>
            /\ ExactLength(p) < AssertLimit
            /\ \A t \in Procs :
                   /\ layout[p].sendcounts[t] = ExactCount(p, t)
                   /\ layout[p].sendoffsets[t]
                          = SumSeq([k \in 1..t |-> ExactCount(p, k - 1)])

-----------------------------------------------------------------------------
(* The layouts and the exchange *)

\* Process p has built its layout: decompose has returned
HasLayout(p) ==
    pc[p] \in {"ready", "ex_allgather", "ex_Barrier1", "ex_Alltoallv",
               "ex_Barrier2", "TypeError", "IndexError", "MPIError"}

\* The sum of f[p] over the processes
SumOver(f) == SumSeq(AsSeq(f, size))

\* C3: once the processes have built their layouts in one round, recvcounts[j]
\* of process i is sendcounts[i] of process j, and the new lengths add up to
\* the old lengths, which add up to the lengths of the index sequences
CountConservation ==
    (\A p \in Procs : HasLayout(p)) =>
        /\ \A i \in Procs : \A j \in Procs :
               layout[i].recvcounts[j] = layout[j].sendcounts[i]
        /\ SumOver([p \in Procs |-> layout[p].newlength])
               = SumOver([p \in Procs |-> layout[p].oldlength])
        /\ SumOver([p \in Procs |-> layout[p].oldlength])
               = SumOver([p \in Procs |-> Len(layout[p].indices)])

\* Three processes have built their layouts, a process receives from two
\* others, and some particle went to more than one rank
CountConservationWitness ==
    /\ size = 3
    /\ \A p \in Procs : HasLayout(p)
    /\ \E i \in Procs :
           Cardinality({j \in Procs \ {i} : layout[i].recvcounts[j] > 0}) = 2
    /\ \E p \in Procs : layout[p].oldlength > Len(pos[p])

\* The items process s selected for process i, in the order of its index sequence
SelectedFor(s, i) ==
    [k \in 1..layout[s].sendcounts[i] |->
        Item(s, layout[s].indices[layout[s].sendoffsets[i] + k])]

RECURSIVE SelectedFrom(_, _)
\* The items selected for process i by the sources s, s + 1, ..., in rank order
SelectedFrom(s, i) ==
    IF s >= size THEN <<>> ELSE SelectedFor(s, i) \o SelectedFrom(s + 1, i)

\* Process p holds the array an exchange call gave it
Delivered(p) == pc[p] = "ex_Barrier2" \/ (pc[p] = "ready" /\ nexchange[p] > 0)

\* C4: the array exchange returns on process i has newlength rows: for each
\* source rank in ascending order, the items that source selected for i, in
\* the order of its index sequence, and nothing else
ExchangeDelivers ==
    \A i \in Procs :
        Delivered(i) =>
            /\ Len(recvbuffer[i]) = layout[i].newlength
            /\ recvbuffer[i] = SelectedFrom(0, i)

\* The collective calls of decompose followed by n exchange calls
RECURSIVE CollectiveCalls(_)
CollectiveCalls(n) ==
    IF n = 0 THEN <<"Barrier", "Alltoall", "Barrier">>
    ELSE CollectiveCalls(n - 1) \o <<"allgather", "Barrier", "Alltoallv", "Barrier">>

IsPrefix(a, b) == Len(a) <= Len(b) /\ a = SubSeq(b, 1, Len(a))

\* Every process has made all its exchange calls and they have returned
AllReturned == \A p \in Procs : pc[p] = "ready" /\ nexchange[p] = MaxExchange

\* C7: when the element types of the payloads agree, every process issues the
\* same collective calls in the same order, and every call returns: as long
\* as no call failed on a type mismatch, some process can take a step until
\* all the exchange calls have returned
CollectiveSymmetry ==
    (\A p \in Procs : pc[p] # "TypeError") =>
        /\ \A p \in Procs : IsPrefix(calls[p], CollectiveCalls(MaxExchange))
        /\ AllReturned \/ ENABLED Next

\* The payloads of the exchange call in progress agree in element type and
\* in trailing shape
PayloadsAgree ==
    \A q \in Procs : \A r \in Procs :
        data[q].dtype = data[r].dtype /\ data[q].shape = data[r].shape

\* C8: exchange fails with a type error exactly when the payloads of two
\* processes differ in element type or in trailing shape: a process that is
\* past the check has failed if they differ and goes on to the transfer only
\* if they agree
TypeShapeChecked ==
    \A p \in Procs :
        pc[p] \in {"TypeError", "IndexError", "ex_Barrier1", "ex_Alltoallv"}
            => (pc[p] = "TypeError" <=> ~PayloadsAgree)

\* C9: exchange goes on to the transfer only with a payload of length
\* oldlength, and a payload of another length fails the call on every
\* process, not on one process while the others block in the Barrier
LengthChecked ==
    \A p \in Procs :
        /\ pc[p] \in {"ex_Barrier1", "ex_Alltoallv", "ex_Barrier2"}
               => data[p].len = layout[p].oldlength
        /\ pc[p] = "IndexError"
               => \A q \in Procs : pc[q] \notin {"ex_Barrier1", "ex_Alltoallv"}

-----------------------------------------------------------------------------
(* The Rotator region *)

\* C5: the bodies run one at a time in ascending rank order: what they log is
\* begin and end of rank 0, then begin and end of rank 1, and so on
RotatorOrdering ==
    \A k \in 1..Len(log) :
        log[k] = <<(k - 1) \div 2, IF k % 2 = 1 THEN "begin" ELSE "end">>

\* Four processes have run their bodies
RotatorOrderingWitness ==
    /\ size = 4
    /\ Len(log) = 8
    /\ \E p \in Procs : pc[p] = "left"

\* Process p has finished its body
BodyDone(p) == pc[p] \in {"exit_Barrier", "exit_last", "left"}

\* C6: no process returns from __exit__ before every process of the group
\* has entered the region and finished its body
RotatorExitBarrier ==
    \A p \in Procs : pc[p] = "left" => \A q \in Procs : BodyDone(q)

\* Rank 0 of four has left the region while the last rank is still in __exit__
RotatorExitBarrierWitness ==
    /\ size = 4
    /\ pc[0] = "left"
    /\ pc[3] = "exit_last"

-----------------------------------------------------------------------------
(* The round trip *)

\* The sequences a and b hold the same values, each as often
SameItems(a, b) ==
    /\ Len(a) = Len(b)
    /\ \A k \in 1..Len(a) : Occurrences(a, a[k]) = Occurrences(b, a[k])

\* Process p has exchanged forward and back and holds the array that came back
BackHome(p) == pc[p] = "ready" /\ nexchange[p] = MaxExchange + 1

\* C11: with radius 0 on a periodic grid, a process that exchanged a payload
\* through its layout and the result through the layout with send and receive
\* counts swapped and identity indices holds the items of its particles again:
\* the same values, each as often, whatever their order
RoundTrip ==
    \A p \in Procs :
        BackHome(p) =>
            SameItems(LastResult(p).rows, [k \in 1..Len(pos[p]) |-> Item(p, k - 1)])

\* Three processes are back home; one of them sent its two particles to two
\* other processes
RoundTripWitness ==
    /\ size = 3
    /\ \A p \in Procs : BackHome(p)
    /\ \E p \in Procs :
           Cardinality({q \in Procs \ {p} : layout[p].sendcounts[q] > 0}) = 2

-----------------------------------------------------------------------------
(* Rank coordinates and sub-domains *)

\* The flat rank of a coordinate tuple, the last dimension varying fastest
RECURSIVE Ravel(_, _)
Ravel(c, dims) ==
    IF c = <<>> THEN 0
    ELSE Ravel(SubSeq(c, 1, Len(c) - 1), SubSeq(dims, 1, Len(dims) - 1)) * dims[Len(dims)]
         + c[Len(c)]

\* The coordinate tuples of the mesh
Mesh(dims) == {c \in [1..Len(dims) -> 0..5] : \A j \in 1..Len(dims) : c[j] < dims[j]}

\* The points of the domain, in ticks
Domain(g) ==
    {x \in [1..Len(g) -> 0..10] : \A j \in 1..Len(g) : g[j][1] <= x[j] /\ x[j] < BoxSize(g, j)}

\* The point x lies in the sub-domain [mystart, myend) of process p
Owns(p, x) ==
    \A j \in 1..Len(x) : gridnd[p].mystart[j] <= x[j] /\ x[j] < gridnd[p].myend[j]

Constructed(p) == pc[p] = "constructed"

\* C12: the constructor succeeds only when the product of the mesh sizes is
\* the group size; then the coordinates of rank r are the tuple of the mesh
\* whose flat index, last dimension fastest, is r, distinct ranks have distinct
\* tuples and disjoint sub-domains, and once all have constructed every tuple
\* of the mesh is taken and every point of the domain lies in a sub-domain
RankCoordinates ==
    /\ \A p \in Procs : Constructed(p) =>
           /\ size = CommSize(grid)
           /\ gridnd[p].myrank \in Mesh(Dims(grid))
           /\ Ravel(gridnd[p].myrank, Dims(grid)) = p
    /\ \A p \in Procs : \A q \in Procs \ {p} :
           Constructed(p) /\ Constructed(q) =>
               /\ gridnd[p].myrank # gridnd[q].myrank
               /\ \A x \in Domain(grid) : ~(Owns(p, x) /\ Owns(q, x))
    /\ (\A p \in Procs : Constructed(p)) =>
           /\ \A c \in Mesh(Dims(grid)) : \E p \in Procs : gridnd[p].myrank = c
           /\ \A x \in Domain(grid) : \E p \in Procs : Owns(p, x)

\* The six processes of the mesh of 3 x 2 ranks have constructed
RankCoordinatesWitness ==
    /\ grid = Grid3x2
    /\ \A p \in Procs : Constructed(p)

-----------------------------------------------------------------------------
(* Reuse of a layout *)

\* The layout decompose built on process p, from what the processes computed
BuiltLayout(p) ==
    LayoutWith(counts[p], indices[p], [q \in Procs |-> counts[q][p]])

\* An exchange call is in progress on process p
InExchange(p) ==
    pc[p] \in {"ex_allgather", "ex_Barrier1", "ex_Alltoallv", "ex_Barrier2"}

\* C13: exchange changes neither the layout nor the payload it is passed,
\* and row k of every array it has returned to a process comes from the same
\* source rank and the same particle of that source
LayoutReuse ==
    \A p \in Procs :
        /\ (\A q \in Procs : HasLayout(q)) => layout[p] = BuiltLayout(p)
        /\ InExchange(p) => rows[p] = [k \in 1..data[p].len |-> Item(p, k - 1)]
        /\ \A a \in 1..Len(results[p]) : \A b \in 1..Len(results[p]) :
               results[p][a].rows = results[p][b].rows

-----------------------------------------------------------------------------
(* The empty batch *)

\* C14: decompose of a batch of zero particles makes no call of _digitize
\* and gives counts of length P that are all zero and an empty index
\* sequence; the layout it returns has oldlength 0 and the recvcounts the
\* peers sent to the process
EmptyBatch ==
    \A p \in Procs :
        Len(pos[p]) = 0 =>
            /\ pc[p] # "start" =>
                   /\ ndigitize[p] = 0
                   /\ DOMAIN counts[p] = 0..(size - 1)
                   /\ \A t \in Procs : counts[p][t] = 0
                   /\ indices[p] = <<>>
            /\ pc[p] = "ready" =>
                   /\ layout[p].sendcounts = counts[p]
                   /\ layout[p].indices = <<>>
                   /\ layout[p].oldlength = 0
                   /\ \A q \in Procs : layout[p].recvcounts[q] = counts[q][p]

\* A process of three got a layout from an empty batch and receives from
\* both its peers
EmptyBatchWitness ==
    /\ size = 3
    /\ \E p \in Procs :
           /\ Len(pos[p]) = 0
           /\ pc[p] = "ready"
           /\ \A q \in Procs \ {p} : layout[p].recvcounts[q] > 0

-----------------------------------------------------------------------------
(* Offsets and totals of a layout *)

\* The sum of the items of a before item t (from 0)
PrefixSum(a, t) == SumSeq([k \in 1..t |-> a[k - 1]])

\* C15: in every layout decompose returns, sendoffsets and recvoffsets are the
\* exclusive prefix sums of sendcounts and recvcounts, oldlength is the sum of
\* sendcounts and the length of the index sequence, and newlength is the sum
\* of recvcounts
LayoutOffsets ==
    \A p \in Procs :
        /\ pc[p] \in {"ready", "bulk_ready"} =>
               /\ \A t \in Procs :
                      layout[p].sendoffsets[t] = PrefixSum(layout[p].sendcounts, t)
               /\ layout[p].oldlength = PrefixSum(layout[p].sendcounts, size)
        /\ pc[p] = "bulk_ready" => layout[p].oldlength = ExactLength(p)
        /\ pc[p] = "ready" =>
               /\ \A t \in Procs :
                      layout[p].recvoffsets[t] = PrefixSum(layout[p].recvcounts, t)
               /\ layout[p].oldlength = Len(layout[p].indices)
               /\ layout[p].newlength = PrefixSum(layout[p].recvcounts, size)

-----------------------------------------------------------------------------
(* The non-periodic clamp *)

\* The ghost interval [x - sm, x + sm] misses the domain in dimension j
OutsideIn(g, sm, j, x) == x[j] + sm < g[j][1] \/ x[j] - sm >= BoxSize(g, j)

\* C16: in non-periodic mode decompose returns for every batch, positions and
\* ghost extents outside the domain included; the bin indices of every
\* particle lie in [0, dims] with lower <= upper, the counts are those of the
\* P ranks and cover the index sequence, a particle goes only to ranks whose
\* sub-domain its unwrapped ghost interval meets, and to no rank when the
\* interval misses the domain in some dimension
NonPeriodicClamp ==
    ~periodic =>
        \A p \in Procs :
            /\ pc[p] \in {"start", "decomposed", "idle"}
            /\ pc[p] = "decomposed" =>
                   /\ DOMAIN counts[p] = 0..(size - 1)
                   /\ PrefixSum(counts[p], size) = Len(indices[p])
                   /\ \A i \in 1..Len(pos[p]) :
                          /\ Occurrences(indices[p], i - 1) <= size
                          /\ \A j \in 1..Len(grid) :
                                 LET lo == Sil(grid, periodic, smoothing, j, pos[p][i][j])
                                     hi == Sir(grid, periodic, smoothing, j, pos[p][i][j])
                                 IN  0 <= lo /\ lo <= hi /\ hi <= Dims(grid)[j]
                          /\ \A t \in Procs :
                                 AssignedTo(p, i - 1, t)
                                     => InReach(grid, FALSE, smoothing, pos[p][i], t)
                          /\ (\E j \in 1..Len(grid) : OutsideIn(grid, smoothing, j, pos[p][i]))
                                 => Occurrences(indices[p], i - 1) = 0

\* A non-periodic batch of two: one particle whose ghost interval lies beyond
\* the last edge, and one below the first edge that reaches into the domain
NonPeriodicClampWitness ==
    /\ ~periodic
    /\ pc[0] = "decomposed"
    /\ Len(pos[0]) = 2
    /\ pos[0][1][1] - smoothing >= BoxSize(grid, 1)
    /\ Occurrences(indices[0], 0) = 0
    /\ pos[0][2][1] < 0
    /\ Occurrences(indices[0], 1) > 0

-----------------------------------------------------------------------------
(* The Barrier rounds of the Rotator region *)

\* Every process has left the region
AllLeft == \A p \in Procs : pc[p] = "left"

\* C17 as stated: rank r has passed exactly r Barrier rounds when its body
\* starts, and P - r rounds and a last one more when it leaves the region
RotatorRoundsAsStated ==
    \A p \in Procs :
        /\ pc[p] = "body" => Len(calls[p]) = p
        /\ pc[p] = "left" => Len(calls[p]) = size + 1

\* The rounds the code makes: one on entry and r more before the body of rank
\* r, P - r and a last one after it, P + 2 for every process
RotatorRoundsMade ==
    \A p \in Procs :
        /\ pc[p] = "body" => Len(calls[p]) = p + 1
        /\ pc[p] = "left" => Len(calls[p]) = size + 2

\* C17, amended: when every process of the group enters the region and its
\* body ends, every process leaves the region in the end, and all make the
\* same number of Barrier rounds: rank r passes r + 1 of them before its body
\* and P - r and a last one after it
RotatorRounds == []RotatorRoundsMade /\ <>AllLeft

\* The four processes of a group have left the region
RotatorRoundsWitness ==
    /\ size = 4
    /\ AllLeft
    /\ \A p \in Procs : Len(calls[p]) = 6

-----------------------------------------------------------------------------
(* The failure on a type mismatch *)

\* Processes p and q are in, or have last left, the exchange call of the same
\* number
SameCall(p, q) == Len(gathered[p]) = Len(gathered[q])

\* The call in progress on process p follows a call that failed
Retried(p) == Len(gathered[p]) > nexchange[p] + 1

\* The payloads of the call in progress agree in element type and trailing
\* shape, and each has one row per position its process decomposed
ValidPayloads ==
    /\ PayloadsAgree
    /\ \A q \in Procs : data[q].len = Len(pos[q])

\* The type error is raised on all the processes of a call or on none, before
\* any of them enters the Barrier or the Alltoallv, and only when the types
\* differ; a process still in allgather can leave it; the layout is as built
TypeErrorGroupWide ==
    \A p \in Procs :
        /\ pc[p] = "TypeError" =>
               /\ TypesDiffer(p)
               /\ \A q \in Procs :
                      SameCall(p, q) =>
                          \/ pc[q] = "TypeError"
                          \/ pc[q] = "ex_allgather" /\ Completed(q)
        /\ pc[p] \in {"ex_Barrier1", "ex_Alltoallv", "ex_Barrier2"} =>
               /\ ~TypesDiffer(p)
               /\ \A q \in Procs : SameCall(p, q) => pc[q] # "TypeError"
        /\ (InExchange(p) \/ pc[p] = "TypeError") => layout[p] = BuiltLayout(p)
        /\ (Retried(p) /\ pc[p] \in {"IndexError", "MPIError"}) => ~ValidPayloads

\* The transfer of a call that follows a failed one, with agreeing types and
\* valid payloads, gives process p the items selected for it
RetryDelivers ==
    \A p \in Procs :
        (/\ pc[p] = "ex_Alltoallv"
         /\ pc'[p] = "ex_Barrier2"
         /\ Retried(p)
         /\ ValidPayloads)
            => recvbuffer'[p] = SelectedFrom(0, p)

\* C18: when exchange detects differing element types, the error is raised
\* on every process in that same call, before any process enters the
\* following Barrier or Alltoallv, and no process is left blocked in a
\* collective; the layout is unchanged, and a later exchange with agreeing
\* types through the same layout delivers the selected items
TypeMismatchGroupWide == []TypeErrorGroupWide /\ [][RetryDelivers]_vars

\* A call has failed on differing types on both processes, and the call that
\* followed has given process 0 an item of process 1
TypeMismatchGroupWideWitness ==
    /\ \A p \in Procs :
           /\ Len(gathered[p]) = 2
           /\ pc[p] = "ex_Barrier2"
    /\ gathered[0][1] # gathered[1][1]
    /\ ValidPayloads
    /\ recvbuffer[0] = SelectedFrom(0, 0)
    /\ \E k \in 1..Len(recvbuffer[0]) : recvbuffer[0][k] = Item(1, 0)

-----------------------------------------------------------------------------
(* The Rotator region with a body that raises *)

\* Process p is out of the region: it left it, or its exception propagates
Out(p) == pc[p] \in {"left", "raised"}

\* The bodies begin and end in rank order, whichever way each ends; a process
\* is out of the region only after all its Barrier rounds and after every
\* body has ended
RaiseKeepsRounds ==
    /\ \A k \in 1..Len(log) :
           /\ log[k][1] = (k - 1) \div 2
           /\ log[k][2] \in (IF k % 2 = 1 THEN {"begin"} ELSE BodyEnds)
    /\ \A p \in Procs :
           Out(p) =>
               /\ Len(calls[p]) = size + 2
               /\ Len(log) = 2 * size
               /\ pc[p] = "raised" <=> Raised(p)

\* C19: if the body of a Rotator region raises on some process, that process
\* still performs all of its exit Barrier rounds before the exception
\* propagates, so every process completes the region in rank order and none
\* blocks forever
RotatorSurvivesRaise == []RaiseKeepsRounds /\ <>(\A p \in Procs : Out(p))

\* Of four processes the body of rank 1 has raised; the exception propagates
\* after its rounds, and the ranks before and after it have left the region
RotatorSurvivesRaiseWitness ==
    /\ size = 4
    /\ pc[1] = "raised"
    /\ Len(calls[1]) = 6
    /\ \A p \in Procs \ {1} : pc[p] = "left"

-----------------------------------------------------------------------------
(* Layout construction with and without recvcounts *)

\* Every process holds its layout
AllReady == \A p \in Procs : pc[p] = "ready"

\* C20: every Layout construction issues Barrier, Alltoall, Barrier on every
\* process whatever its arguments, a round in which some processes supply
\* recvcounts and others do not completes on all processes (some process can
\* take a step until all hold their layout), and the receive counts of every
\* constructed Layout are what the peers' send counts say
LayoutUniform ==
    /\ \A p \in Procs :
           pc[p] = "ready" =>
               /\ calls[p] = <<"Barrier", "Alltoall", "Barrier">>
               /\ \A q \in Procs :
                      pc[q] # "start" => layout[p].recvcounts[q] = counts[q][p]
    /\ AllReady \/ ENABLED NextSupply

=============================================================================
